---- MODULE Spec2Model ----
(***************************************************************************)
(* The LSP gateway of src/main.go: main builds a Server and starts it on   *)
(* the stdio stream; handle dispatches each request by method; the         *)
(* completion handler relays the query to the OmniSharp backend over HTTP  *)
(* and converts the answer.                                                *)
(*                                                                         *)
(* A request is handled in one step, except that a completion request      *)
(* waits for the backend between its POST (handle) and the backend's       *)
(* answer (SendRequestReturn); steps of different requests may interleave, *)
(* which includes the schedule where each request is finished before the   *)
(* next one is read.                                                       *)
(***************************************************************************)
EXTENDS Integers, Sequences, FiniteSets, TLC

VARIABLES
    server,   \* the Server struct: conn, client, omnisharp
    built,    \* the Server as it was constructed (never changes)
    pc,       \* where main is: "main", "serving", "exited"
    stream,   \* the stdio stream: "unopened", "open", "closed"
    connErr,  \* what conn.Err() reports: "nil", "EOF", "io error"
    proc,     \* the process: alive or exited, with its exit status
    calls     \* one record per request read from the stream, in arrival order

vars == <<server, built, pc, stream, connErr, proc, calls>>

(* ------------------------------ bounds -------------------------------- *)

\* requests read from the stream in one run
MaxRequests == 2

\* candidates in one backend answer
MaxItems == 2

(* ------------------------- protocol constants -------------------------- *)

MethodInitialize == "initialize"

MethodTextDocumentCompletion == "textDocument/completion"

\* protocol.CompletionItemKind values used by convertKind
CompletionItemKindText == 1

CompletionItemKindMethod == 2

CompletionItemKindField == 5

CompletionItemKindClass == 7

CompletionItemKindProperty == 10

\* protocol.TextDocumentSyncKindFull
TextDocumentSyncKindFull == 1

(* ----------------------------- the inputs ------------------------------ *)

\* request parameters that UnmarshalTo cannot decode
MalformedParams == [shape |-> "malformed"]

\* InitializeParams that decode; they differ in what the client sent
InitializeParamsSet == { [shape |-> "initialize", processID |-> p] : p \in {1, 2} }

\* CompletionParams that decode: position and document
CompletionParamsSet ==
    { [shape |-> "completion", line |-> 10, character |-> 4,
       uri |-> [scheme |-> "file", path |-> "/Foo.cs"]],
      [shape |-> "completion", line |-> 0, character |-> 7,
       uri |-> [scheme |-> "file", path |-> "/src/Bar.cs"]] }

\* methods the switch of handle has no case for
OtherMethods == {"textDocument/hover", "shutdown"}

\* the requests a peer sends
Requests ==
    { [method |-> MethodInitialize, params |-> p] :
          p \in InitializeParamsSet \cup {MalformedParams} }
    \cup { [method |-> MethodTextDocumentCompletion, params |-> p] :
          p \in CompletionParamsSet \cup {MalformedParams} }
    \cup { [method |-> m, params |-> MalformedParams] : m \in OtherMethods }

\* the objects a backend answers with; a missing member decodes as ""
Candidates ==
    { [CompletionText |-> "Bar", DisplayText |-> "Bar()",
       Documentation |-> "doc", Kind |-> "Method"],
      [CompletionText |-> "baz", DisplayText |-> "Baz",
       Documentation |-> "", Kind |-> "Keyword"] }

\* kind tags a backend may send: the four mapped ones and others
KindTags == {"Method", "Property", "Field", "Class", "", "method", "Enum"}

\* candidates that carry every kind tag
KindCandidates ==
    { [CompletionText |-> "Bar", DisplayText |-> "Bar()",
       Documentation |-> "doc", Kind |-> k] : k \in KindTags }

\* sequences over S of length at most n
SeqsUpTo(S, n) == UNION { [1..k -> S] : k \in 0..n }

\* an array element that is no JSON object, such as 1
ScalarElem == [scalar |-> TRUE]

\* response bodies: bytes that are no JSON, JSON null, a JSON object,
\* and JSON arrays
Array(elems) == [kind |-> "array", elems |-> elems]

Bodies ==
    { [kind |-> "invalid"], [kind |-> "null"], [kind |-> "object"],
      Array(<<ScalarElem>>) }
    \cup { Array(e) : e \in SeqsUpTo(Candidates, MaxItems) }

\* bodies whose candidates carry every kind tag
KindBodies == { Array(e) : e \in SeqsUpTo(KindCandidates, MaxItems + 1) }

NoBody == [kind |-> "none"]

\* what o.client.Do and ioutil.ReadAll give: an error, or the body
TransportFailure == [err |-> "transport", body |-> NoBody]

Received(body) == [err |-> "nil", body |-> body]

Outcomes == {TransportFailure} \cup { Received(b) : b \in Bodies }

KindOutcomes == { Received(b) : b \in KindBodies }

NoOutcome == [err |-> "pending", body |-> NoBody]

(* ------------------------------ the server ----------------------------- *)

BaseURL == "http://localhost:2000"

NilOmniSharp == [isNil |-> TRUE]

NewOmniSharpClient(baseURL) ==
    [isNil |-> FALSE, baseURL |-> baseURL, client |-> "http.Client"]

\* &Server{}: every field nil
ServerLiteral == [conn |-> "nil", client |-> "nil", omnisharp |-> NilOmniSharp]

(* -------------------------- the pure functions ------------------------- *)

\* convertKind as it would be with the tags compared without regard to case
convertKind_foldCase(omnisharpKind) ==
    CASE omnisharpKind \in {"Method", "method"} -> CompletionItemKindMethod
      [] omnisharpKind = "Property" -> CompletionItemKindProperty
      [] omnisharpKind = "Field" -> CompletionItemKindField
      [] omnisharpKind = "Class" -> CompletionItemKindClass
      [] OTHER -> CompletionItemKindText

convertKind(omnisharpKind) ==
    CASE omnisharpKind = "Method" -> CompletionItemKindMethod
      [] omnisharpKind = "Property" -> CompletionItemKindProperty
      [] omnisharpKind = "Field" -> CompletionItemKindField
      [] omnisharpKind = "Class" -> CompletionItemKindClass
      [] OTHER -> CompletionItemKindText

\* handleInitialize as it would be if it looked at the client's parameters
handleInitialize_byClient(params) ==
    [tag |-> "InitializeResult",
     triggerCharacters |-> IF params.processID = 1 THEN <<".", " ">> ELSE <<".">>,
     change |-> TextDocumentSyncKindFull,
     openClose |-> TRUE]

handleInitialize(params) ==
    [tag |-> "InitializeResult",
     triggerCharacters |-> <<".", " ">>,
     change |-> TextDocumentSyncKindFull,
     openClose |-> TRUE]

\* URI.SpanURI().Filename(): the path of a file URI
Filename(uri) == uri.path

\* the map handleCompletion sends to the backend
omnisharpRequest(params) ==
    [Line |-> params.line,
     Column |-> params.character,
     FileName |-> Filename(params.uri)]

\* Unmarshal as it would be if a JSON object were taken for an empty answer
Unmarshal_lenient(body) ==
    CASE body.kind \in {"null", "object"} -> [err |-> "nil", value |-> <<>>]
      [] body.kind = "array" ->
            IF \A j \in 1..Len(body.elems) : body.elems[j] # ScalarElem
            THEN [err |-> "nil", value |-> body.elems]
            ELSE [err |-> "decode", value |-> <<>>]
      [] OTHER -> [err |-> "decode", value |-> <<>>]

\* json.Unmarshal into a slice of candidate structs: null leaves the slice
\* nil without an error; an array decodes element by element; anything else
\* is an error
Unmarshal(body) ==
    CASE body.kind = "null" -> [err |-> "nil", value |-> <<>>]
      [] body.kind = "array" ->
            IF \A j \in 1..Len(body.elems) : body.elems[j] # ScalarElem
            THEN [err |-> "nil", value |-> body.elems]
            ELSE [err |-> "decode", value |-> <<>>]
      [] OTHER -> [err |-> "decode", value |-> <<>>]

\* ConvertItems as it would be with label and insert text exchanged
ConvertItems_swapped(omnisharpResponse) ==
    [i \in 1..Len(omnisharpResponse) |->
        [Label |-> omnisharpResponse[i].CompletionText,
         Detail |-> omnisharpResponse[i].Documentation,
         Kind |-> convertKind(omnisharpResponse[i].Kind),
         InsertText |-> omnisharpResponse[i].DisplayText]]

\* the loop that fills items
ConvertItems(omnisharpResponse) ==
    [i \in 1..Len(omnisharpResponse) |->
        [Label |-> omnisharpResponse[i].DisplayText,
         Detail |-> omnisharpResponse[i].Documentation,
         Kind |-> convertKind(omnisharpResponse[i].Kind),
         InsertText |-> omnisharpResponse[i].CompletionText]]

\* what handleCompletion returns once SendRequest has returned `outcome`
handleCompletionResult(outcome) ==
    IF outcome.err # "nil"
    THEN [tag |-> "error", err |-> outcome.err]
    ELSE LET u == Unmarshal(outcome.body) IN
         IF u.err # "nil"
         THEN [tag |-> "error", err |-> u.err]
         ELSE [tag |-> "CompletionList",
               IsIncomplete |-> FALSE,
               Items |-> ConvertItems(u.value)]

(* ------------------------- one request's record ------------------------ *)

NoResult == [tag |-> "none"]

NoResponse == [tag |-> "none"]

\* reply(ctx, result, err): the response the peer receives, an error
\* response when err is not nil
reply(result) ==
    IF result.tag = "error"
    THEN [tag |-> "error", err |-> result.err]
    ELSE [tag |-> "result", value |-> result]

\* a request that handle has finished with: what the handler computed, what
\* the peer received, and the error handle returned ("nil" for none). A
\* response is written only by a call of reply: the error handle returns
\* goes to the connection, not to the peer
Finished(req, posts, backend, result, response, ret) ==
    [req |-> req, pc |-> "done", posts |-> posts, backend |-> backend,
     result |-> result, response |-> response, ret |-> ret]

\* case protocol.MethodInitialize
handleInitializeCase(req) ==
    IF req.params.shape = "malformed"
    THEN Finished(req, <<>>, NoOutcome, NoResult, NoResponse, "decode")
    ELSE LET r == handleInitialize(req.params) IN
         Finished(req, <<>>, NoOutcome, r, reply(r), "nil")

\* handleDefault as it would be if it answered "method not found"
handleDefault_methodNotFound(req) ==
    Finished(req, <<>>, NoOutcome, [tag |-> "error", err |-> "method not found"],
             [tag |-> "error", err |-> "method not found"], "nil")

\* no case of the switch matches: return nil
handleDefault(req) ==
    Finished(req, <<>>, NoOutcome, NoResult, NoResponse, "nil")

\* the POST SendRequest issues through o.client.Do
Post(o, endpoint, request) ==
    [method |-> "POST", url |-> <<o.baseURL, endpoint>>,
     contentType |-> "application/json", body |-> request]

\* case protocol.MethodTextDocumentCompletion, up to o.client.Do: on a nil
\* *OmniSharpClient, o.baseURL is a nil dereference and the goroutine panics
handleCompletionCase(req, srv) ==
    IF req.params.shape = "malformed"
    THEN Finished(req, <<>>, NoOutcome, NoResult, NoResponse, "decode")
    ELSE IF srv.omnisharp.isNil
    THEN [req |-> req, pc |-> "panicked", posts |-> <<>>, backend |-> NoOutcome,
          result |-> NoResult, response |-> NoResponse, ret |-> "none"]
    ELSE [req |-> req, pc |-> "awaiting",
          posts |-> <<Post(srv.omnisharp, "/autocomplete",
                           omnisharpRequest(req.params))>>,
          backend |-> NoOutcome, result |-> NoResult,
          response |-> NoResponse, ret |-> "none"]

\* the switch of handle
Dispatch(req, srv) ==
    CASE req.method = MethodInitialize -> handleInitializeCase(req)
      [] req.method = MethodTextDocumentCompletion -> handleCompletionCase(req, srv)
      [] OTHER -> handleDefault(req)

\* Complete as it would be if items were one slice shared by all requests,
\* each answer appended to what earlier answers left in it
Complete_sharedItems(call, outcome) ==
    LET r == handleCompletionResult(outcome)
        earlier == { k \in 1..Len(calls) :
                       calls[k].pc = "done" /\ calls[k].result.tag = "CompletionList" }
        left == IF earlier = {} THEN <<>>
                ELSE calls[CHOOSE k \in earlier : \A m \in earlier : m <= k].result.Items
        shared == IF r.tag = "CompletionList"
                  THEN [r EXCEPT !.Items = left \o r.Items]
                  ELSE r
    IN Finished(call.req, call.posts, outcome, shared, reply(shared), "nil")

\* the rest of handleCompletion and the reply, once SendRequest has returned
Complete(call, outcome) ==
    LET r == handleCompletionResult(outcome) IN
    Finished(call.req, call.posts, outcome, r, reply(r), "nil")

(* ------------------------------ the process ---------------------------- *)

Running == [alive |-> TRUE]

\* an unrecovered panic ends a Go program with status 2
Panicked == [alive |-> FALSE, status |-> 2, logged |-> "panic"]

\* log.Fatal(err): the error is logged, then os.Exit(1)
Fatal(err) == [alive |-> FALSE, status |-> 1, logged |-> err]

\* main returns
Returned == [alive |-> FALSE, status |-> 0, logged |-> "nothing"]

\* the errors a read of the stream ends with: io.EOF when the peer closes
\* the stream, an I/O error otherwise
ReadErrors == {"EOF", "io error"}

(* ------------------------------- actions ------------------------------- *)

\* main: server := &Server{}; a Server wired to a backend holds the client
\* that NewOmniSharpClient builds
Init ==
    /\ server \in { ServerLiteral,
                    [ServerLiteral EXCEPT !.omnisharp = NewOmniSharpClient(BaseURL)] }
    /\ built = server
    /\ pc = "main"
    /\ stream = "unopened"
    /\ connErr = "nil"
    /\ proc = Running
    /\ calls = <<>>

\* Start, up to conn.Go: the stream is opened and s.conn is set
Start ==
    /\ pc = "main"
    /\ proc.alive
    /\ server' = [server EXCEPT !.conn = "conn"]
    /\ stream' = "open"
    /\ pc' = "serving"
    /\ UNCHANGED <<built, connErr, proc, calls>>

\* a request is read from the stream and handle runs on it
handle(req) ==
    /\ pc = "serving"
    /\ proc.alive
    /\ stream = "open"
    /\ Len(calls) < MaxRequests
    /\ LET call == Dispatch(req, server) IN
       /\ calls' = Append(calls, call)
       /\ proc' = IF call.pc = "panicked" THEN Panicked ELSE proc
    /\ UNCHANGED <<server, built, pc, stream, connErr>>

\* SendRequest returns to handleCompletion, which finishes and replies
SendRequestReturn(i, outcome) ==
    /\ proc.alive
    /\ i \in 1..Len(calls)
    /\ calls[i].pc = "awaiting"
    /\ calls' = [calls EXCEPT ![i] = Complete(calls[i], outcome)]
    /\ UNCHANGED <<server, built, pc, stream, connErr, proc>>

\* the stream ends: the peer closes it (the read gives io.EOF) or the read
\* fails. The connection keeps the read error and closes Done; Start
\* returns conn.Err() and main ends the process
StartReturn(err) ==
    /\ pc = "serving"
    /\ proc.alive
    /\ stream = "open"
    /\ stream' = "closed"
    /\ connErr' = err
    /\ pc' = "exited"
    /\ proc' = IF err # "nil" THEN Fatal(err) ELSE Returned
    /\ UNCHANGED <<server, built, calls>>

Next ==
    \/ Start
    \/ \E req \in Requests : handle(req)
    \/ \E i \in 1..MaxRequests, outcome \in Outcomes : SendRequestReturn(i, outcome)
    \/ \E err \in ReadErrors : StartReturn(err)

Spec == Init /\ [][Next]_vars

\* A completion request waiting for its backend, on a server wired to a
\* backend: the state Spec reaches by Start and one handle. From here the
\* backend answers with candidates of every kind tag.
InitKinds ==
    /\ built = [ServerLiteral EXCEPT !.omnisharp = NewOmniSharpClient(BaseURL)]
    /\ server = [built EXCEPT !.conn = "conn"]
    /\ pc = "serving"
    /\ stream = "open"
    /\ connErr = "nil"
    /\ proc = Running
    /\ \E p \in CompletionParamsSet :
          calls = << Dispatch([method |-> MethodTextDocumentCompletion,
                               params |-> p], server) >>

NextKinds == \E outcome \in KindOutcomes : SendRequestReturn(1, outcome)

SpecKinds == InitKinds /\ [][NextKinds]_vars

(* ------------------------------ the claims ----------------------------- *)

Handled == 1..Len(calls)

DecodesAs(c, method) ==
    c.req.method = method /\ c.req.params.shape # "malformed"

DecodeFails(c) ==
    /\ c.req.method \in {MethodInitialize, MethodTextDocumentCompletion}
    /\ c.req.params.shape = "malformed"

Unrecognized(c) ==
    c.req.method \notin {MethodInitialize, MethodTextDocumentCompletion}

\* the backend answered this call with `kinds` of body
GotBody(c, kinds) ==
    c.pc = "done" /\ c.backend.err = "nil" /\ c.backend.body.kind \in kinds

\* C1: a request whose handling fails, by a parameter decode failure of an
\* initialize or completion request or by a failed backend call, is answered
\* with an error response.
C1_FailureIsAnswered ==
    \A i \in Handled :
        (DecodeFails(calls[i])
            \/ (calls[i].pc = "done" /\ calls[i].backend.err = "transport"))
        => calls[i].response.tag = "error"

\* C2: on the server as main constructs it, a completion request whose
\* backend call fails leaves the process alive with its stream open, so that
\* later requests are still dispatched and answered.
C2_MainServerOutlivesFailedCompletion ==
    built = ServerLiteral =>
        \A i \in Handled :
            DecodesAs(calls[i], MethodTextDocumentCompletion)
            => /\ calls[i].pc # "panicked"
               /\ (proc.alive \/ stream = "closed")

\* C3: a backend answer that is a JSON array of n candidates gives a
\* completion list with isIncomplete = false and n items, item j built from
\* candidate j: label = DisplayText, detail = Documentation, insert text =
\* CompletionText, kind = convertKind(Kind).
C3_ListMirrorsCandidates ==
    \A i \in Handled :
        (GotBody(calls[i], {"array"})
            /\ \A j \in DOMAIN calls[i].backend.body.elems :
                  calls[i].backend.body.elems[j] # ScalarElem)
        => LET cands == calls[i].backend.body.elems
               r == calls[i].result
           IN /\ r.tag = "CompletionList"
              /\ r.IsIncomplete = FALSE
              /\ Len(r.Items) = Len(cands)
              /\ \A j \in 1..Len(cands) :
                    /\ r.Items[j].Label = cands[j].DisplayText
                    /\ r.Items[j].Detail = cands[j].Documentation
                    /\ r.Items[j].InsertText = cands[j].CompletionText
                    /\ r.Items[j].Kind = convertKind(cands[j].Kind)
              /\ calls[i].response = [tag |-> "result", value |-> r]

C3_Witness ==
    \E i \in Handled :
        /\ GotBody(calls[i], {"array"})
        /\ Len(calls[i].backend.body.elems) = 2
        /\ calls[i].backend.body.elems[1] # calls[i].backend.body.elems[2]
        /\ calls[i].response.tag = "result"
        /\ Len(calls[i].response.value.Items) = 2

\* C4: the kind mapping is total: Method, Property, Field and Class map to
\* themselves and every other tag, the empty and the differently-cased ones
\* included, maps to Text; an item's kind is never an error or undefined.
C4_KindTable ==
    \A i \in Handled :
        GotBody(calls[i], {"array"}) =>
            /\ calls[i].result.tag = "CompletionList"
            /\ \A j \in DOMAIN calls[i].backend.body.elems :
                  LET tag == calls[i].backend.body.elems[j].Kind
                      kind == calls[i].result.Items[j].Kind
                  IN /\ tag = "Method" => kind = CompletionItemKindMethod
                     /\ tag = "Property" => kind = CompletionItemKindProperty
                     /\ tag = "Field" => kind = CompletionItemKindField
                     /\ tag = "Class" => kind = CompletionItemKindClass
                     /\ tag \notin {"Method", "Property", "Field", "Class"}
                           => kind = CompletionItemKindText

C4_Witness ==
    \E i \in Handled :
        /\ GotBody(calls[i], {"array"})
        /\ Len(calls[i].result.Items) = 3
        /\ calls[i].backend.body.elems[1].Kind = "Class"
        /\ calls[i].backend.body.elems[2].Kind = ""
        /\ calls[i].backend.body.elems[3].Kind = "method"
        /\ calls[i].result.Items[1].Kind = CompletionItemKindClass
        /\ calls[i].result.Items[2].Kind = CompletionItemKindText
        /\ calls[i].result.Items[3].Kind = CompletionItemKindText

\* C5: every initialize request whose parameters decode is answered with
\* trigger characters <<".", " ">>, change mode Full and openClose = true,
\* whatever its parameters and whatever came before; any two such requests
\* get the same result.
C5_InitializeResultIsFixed ==
    \A i \in Handled :
        DecodesAs(calls[i], MethodInitialize) =>
            /\ calls[i].response.tag = "result"
            /\ calls[i].response.value.triggerCharacters = <<".", " ">>
            /\ calls[i].response.value.change = TextDocumentSyncKindFull
            /\ calls[i].response.value.openClose = TRUE
            /\ \A k \in Handled :
                  DecodesAs(calls[k], MethodInitialize)
                  => calls[k].response = calls[i].response

C5_Witness ==
    /\ Len(calls) = 2
    /\ DecodesAs(calls[1], MethodInitialize)
    /\ DecodesAs(calls[2], MethodInitialize)
    /\ calls[1].req.params # calls[2].req.params
    /\ calls[1].response.tag = "result"
    /\ calls[2].response.tag = "result"

\* C6 as stated: a backend body that is not valid JSON, or is valid JSON but
\* no array, makes the completion handler fail with a decode error and give
\* no list, and the request is answered with an error response.
C6_NonArrayBodyIsDecodeError ==
    \A i \in Handled :
        GotBody(calls[i], {"invalid", "null", "object"}) =>
            /\ calls[i].result = [tag |-> "error", err |-> "decode"]
            /\ calls[i].response = [tag |-> "error", err |-> "decode"]
            /\ calls[i].pc # "panicked"

\* C6 amended: a body that is not valid JSON, or is valid JSON that is
\* neither an array nor null, makes the completion handler fail with a
\* decode error and give no list, and the request is answered with an error
\* response without a crash; a body of JSON null is accepted and gives the
\* empty list with isIncomplete = false.
C6_NonArrayNonNullBodyIsDecodeError ==
    \A i \in Handled :
        /\ GotBody(calls[i], {"invalid", "object"}) =>
              /\ calls[i].result = [tag |-> "error", err |-> "decode"]
              /\ calls[i].response = [tag |-> "error", err |-> "decode"]
              /\ calls[i].pc # "panicked"
        /\ GotBody(calls[i], {"null"}) =>
              /\ calls[i].result = [tag |-> "CompletionList",
                                    IsIncomplete |-> FALSE, Items |-> <<>>]
              /\ calls[i].response = [tag |-> "result", value |-> calls[i].result]

C6_Witness ==
    /\ Len(calls) = 2
    /\ GotBody(calls[1], {"invalid"})
    /\ calls[1].response.tag = "error"
    /\ GotBody(calls[2], {"null"})
    /\ calls[2].response.tag = "result"
    /\ proc.alive

\* C7: a request whose method is neither initialize nor
\* textDocument/completion is ignored: no reply, no error, no backend call,
\* the server, the stream, the process and the other requests left as they
\* were, so that the loop goes on to later requests.
C7_UnrecognizedIsIgnored ==
    [][ (Len(calls') = Len(calls) + 1 /\ Unrecognized(calls'[Len(calls')]))
        => /\ calls'[Len(calls')].response = NoResponse
           /\ calls'[Len(calls')].result = NoResult
           /\ calls'[Len(calls')].ret = "nil"
           /\ calls'[Len(calls')].posts = <<>>
           /\ calls'[Len(calls')].pc = "done"
           /\ SubSeq(calls', 1, Len(calls)) = calls
           /\ UNCHANGED <<server, pc, stream, connErr, proc>>
           /\ proc'.alive /\ stream' = "open" ]_vars

C7_Witness ==
    /\ Len(calls) = 2
    /\ Unrecognized(calls[1])
    /\ calls[1].response = NoResponse
    /\ DecodesAs(calls[2], MethodInitialize)
    /\ calls[2].response.tag = "result"
    /\ proc.alive

\* C8: the process exits only once its stream is closed: with a non-zero
\* status and the error logged when the stream closed with an error, with
\* status 0 when it closed gracefully; no handler failure ends the process.
C8_ExitFollowsStreamClosure ==
    ~proc.alive =>
        /\ stream = "closed"
        /\ \A i \in Handled : calls[i].pc # "panicked"
        /\ connErr = "io error" => (proc.status # 0 /\ proc.logged = connErr)
        /\ connErr = "EOF" => proc.status = 0

\* the reply request `c` gets when it is the only request the server, as it
\* was built and started, ever handles
HandledAlone(c) ==
    LET first == Dispatch(c.req, [built EXCEPT !.conn = "conn"])
        r == handleCompletionResult(c.backend)
    IN IF first.pc = "awaiting" /\ c.pc = "done"
       THEN Finished(c.req, first.posts, c.backend, r, reply(r), "nil")
       ELSE first

\* C9: handling a request changes no field of the Server or of the backend
\* client, and each request is handled and answered as it is when handled
\* alone, however the requests interleave.
C9_NoSharedMutableState ==
    /\ server.client = built.client
    /\ server.omnisharp = built.omnisharp
    /\ server.conn = IF pc = "main" THEN built.conn ELSE "conn"
    /\ \A i \in Handled : calls[i] = HandledAlone(calls[i])

C9_Witness ==
    /\ Len(calls) = 2
    /\ calls[1].pc = "awaiting"
    /\ DecodesAs(calls[2], MethodTextDocumentCompletion)
    /\ calls[2].response.tag = "result"
    /\ calls[2].req # calls[1].req
    /\ Len(calls[2].result.Items) = 2

\* C10: a completion request whose parameters decode causes exactly one POST
\* to base URL + "/autocomplete" whose payload holds the request's line,
\* character and file name, never a second one after a failure; any other
\* request causes none.
C10_OnePostPerCompletion ==
    \A i \in Handled :
        IF DecodesAs(calls[i], MethodTextDocumentCompletion)
        THEN /\ Len(calls[i].posts) = 1
             /\ calls[i].posts[1].method = "POST"
             /\ calls[i].posts[1].url[2] = "/autocomplete"
             /\ calls[i].posts[1].body =
                    [Line |-> calls[i].req.params.line,
                     Column |-> calls[i].req.params.character,
                     FileName |-> calls[i].req.params.uri.path]
        ELSE calls[i].posts = <<>>

====
